---- MODULE Spec2Model ----
(***************************************************************************)
(* govanityurls: a vanity import path server.  main reads a YAML           *)
(* configuration, NewVanityHandler builds the sorted table of PathConfig   *)
(* entries, and VanityHandler.ServeHTTP resolves each request path against *)
(* the table with PathConfigSet.find.                                      *)
(*                                                                         *)
(* Strings are sequences of tokens.  A path is a sequence of one-character *)
(* tokens, compared byte-wise through ByteOf as Go compares strings; a     *)
(* host, a repository URL or a display string is a sequence of longer      *)
(* tokens, which the code only concatenates and tests for a prefix.       *)
(***************************************************************************)
EXTENDS Integers, Sequences, FiniteSets, TLC

VARIABLES config, phase, paths, host, cachectrl, err, reqs

vars == <<config, phase, paths, host, cachectrl, err, reqs>>

----------------------------------------------------------------------------
(* Bounds of the model. *)

\* the largest number of keys under "paths:" in a configuration
MaxPaths == 3

\* the longest request path drawn from ReqAlphabet
MaxReqLen == 4

\* the number of requests served concurrently in SpecConcurrent
NumReq == 2

----------------------------------------------------------------------------
(* Strings. *)

\* the byte value of a one-character token (Go compares strings byte-wise)
ByteOf ==
    ("-" :> 45) @@ ("/" :> 47) @@ ("a" :> 97) @@ ("b" :> 98) @@ ("c" :> 99)
    @@ ("d" :> 100) @@ ("e" :> 101) @@ ("f" :> 102) @@ ("x" :> 120)
    @@ ("y" :> 121) @@ ("z" :> 122)

Min(a, b) == IF a < b THEN a ELSE b

\* s < t on Go strings: byte-wise lexicographic order
StrLess(s, t) ==
    \E k \in 1..(Min(Len(s), Len(t)) + 1) :
        /\ \A j \in 1..(k - 1) : s[j] = t[j]
        /\ \/ k > Len(s) /\ k <= Len(t)
           \/ k <= Len(s) /\ k <= Len(t) /\ ByteOf[s[k]] < ByteOf[t[k]]

\* strings.HasPrefix
HasPrefix(s, prefix) ==
    Len(prefix) <= Len(s) /\ SubSeq(s, 1, Len(prefix)) = prefix

\* strings.TrimPrefix
TrimPrefix(s, prefix) ==
    IF HasPrefix(s, prefix) THEN SubSeq(s, Len(prefix) + 1, Len(s)) ELSE s

\* strings.HasSuffix
HasSuffix(s, suffix) ==
    Len(suffix) <= Len(s)
    /\ SubSeq(s, Len(s) - Len(suffix) + 1, Len(s)) = suffix

\* a wrong normalisation: the key is kept as configured
KeepSuffix(s, suffix) == s

\* strings.TrimSuffix
TrimSuffix(s, suffix) ==
    IF HasSuffix(s, suffix) THEN SubSeq(s, 1, Len(s) - Len(suffix)) ELSE s

\* the string "/"
Slash == <<"/">>

----------------------------------------------------------------------------
(* PathConfigSet: a sequence of PathConfig records [Path, Repo, Display,  *)
(* VCS].  Go indexes it from 0; pset[i] of the code is pset[i + 1] here.  *)

\* PathConfigSet.Less on two entries
Less(a, b) == StrLess(a.Path, b.Path)

\* sort.Search(len(pset), func(i) { return pset[i].Path >= path }): the
\* binary search of the standard library, on the half-open range [i, j)
RECURSIVE Search(_, _, _, _)
Search(pset, path, i, j) ==
    IF i < j
    THEN LET h == (i + j) \div 2
         IN  IF StrLess(pset[h + 1].Path, path)
             THEN Search(pset, path, h + 1, j)
             ELSE Search(pset, path, i, h)
    ELSE i

\* a wrong exact-match test: looks at the entry before i
ExactAtPrevious(pset, path, i) ==
    i > 0 /\ pset[i].Path = path

\* i < len(pset) && pset[i].Path == path
ExactAt(pset, path, i) ==
    i < Len(pset) /\ pset[i + 1].Path = path

\* i > 0 && strings.HasPrefix(path, pset[i-1].Path+"/")
ChildOfPrevious(pset, path, i) ==
    i > 0 /\ HasPrefix(path, pset[i].Path \o Slash)

\* a wrong slice: the separating slash is left in the subpath
ChildSubpathKeepsSlash(pset, path, i) ==
    SubSeq(path, Len(pset[i].Path) + 1, Len(path))

\* path[len(pset[i-1].Path)+1:]
ChildSubpath(pset, path, i) ==
    SubSeq(path, Len(pset[i].Path) + 2, Len(path))

\* a wrong scan: the first prefix found is kept, later ones are ignored
RECURSIVE ScanKeepsFirst(_, _, _, _, _, _, _)
ScanKeepsFirst(pset, path, i, max, lenShortestSubpath, bestMatchConfig, subpath) ==
    IF i >= max
    THEN [pc |-> bestMatchConfig, subpath |-> subpath]
    ELSE LET ps == pset[i + 1]
             sSubpath == TrimPrefix(path, ps.Path)
         IN  IF Len(ps.Path) >= Len(path)
             THEN ScanKeepsFirst(pset, path, i + 1, max, lenShortestSubpath,
                                 bestMatchConfig, subpath)
             ELSE IF Len(sSubpath) < lenShortestSubpath /\ bestMatchConfig = 0
             THEN ScanKeepsFirst(pset, path, i + 1, max, Len(sSubpath),
                                 i + 1, sSubpath)
             ELSE ScanKeepsFirst(pset, path, i + 1, max, lenShortestSubpath,
                                 bestMatchConfig, subpath)

\* the slow path of find: for i := 0; i < max; i++ { ... }, with the
\* locals lenShortestSubpath, bestMatchConfig (0 is nil) and subpath
RECURSIVE Scan(_, _, _, _, _, _, _)
Scan(pset, path, i, max, lenShortestSubpath, bestMatchConfig, subpath) ==
    IF i >= max
    THEN [pc |-> bestMatchConfig, subpath |-> subpath]
    ELSE LET ps == pset[i + 1]
             sSubpath == TrimPrefix(path, ps.Path)
         IN  IF Len(ps.Path) >= Len(path)
             THEN Scan(pset, path, i + 1, max, lenShortestSubpath,
                       bestMatchConfig, subpath)
             ELSE IF Len(sSubpath) < lenShortestSubpath
             THEN Scan(pset, path, i + 1, max, Len(sSubpath), i + 1, sSubpath)
             ELSE Scan(pset, path, i + 1, max, lenShortestSubpath,
                       bestMatchConfig, subpath)

\* PathConfigSet.find: pc is the position in pset of the entry returned
\* (&pset[pc - 1] in the code), 0 when the code returns nil
find(pset, path) ==
    LET i == Search(pset, path, 0, Len(pset))
    IN  IF ExactAt(pset, path, i)
        THEN [pc |-> i + 1, subpath |-> <<>>]
        ELSE IF ChildOfPrevious(pset, path, i)
        THEN [pc |-> i, subpath |-> ChildSubpath(pset, path, i)]
        ELSE Scan(pset, path, 0, i, Len(path), 0, <<>>)

----------------------------------------------------------------------------
(* The configuration file: VanityConfig, as yaml.Unmarshal parses it. *)

GithubPrefix == <<"https://github.com/">>

BitbucketPrefix == <<"https://bitbucket.org">>

\* cache_max_age is a *int64: IsNil when the key is absent
NoCacheAge == [IsNil |-> TRUE, Value |-> 0]

CacheAgeOf(n) == [IsNil |-> FALSE, Value |-> n]

\* the keys under "paths:" that configurations are drawn from: absolute
\* paths with non-empty segments, with or without a trailing slash
Keys ==
    { <<"/">>,
      <<"/", "a">>,
      <<"/", "a", "/">>,
      <<"/", "a", "/", "b">>,
      <<"/", "a", "/", "b", "/", "c">>,
      <<"/", "a", "-", "b">>,
      <<"/", "a", "b", "c">>,
      <<"/", "x", "y", "z">> }

\* the VanityPath values that configurations are drawn from
VanityPaths ==
    { [Repo |-> <<"https://github.com/", "breuHQ/ctrlplane">>,
       Display |-> <<>>, VCS |-> ""],
      [Repo |-> <<"https://bitbucket.org", "/breu/tools">>,
       Display |-> <<>>, VCS |-> "hg"],
      [Repo |-> <<"https://example.com/", "repo">>,
       Display |-> <<"https://example.com/repo _ _">>, VCS |-> ""] }

\* the host and cache_max_age settings that configurations are drawn from
Settings ==
    { [Host |-> <<"go.breu.io">>, CacheAge |-> NoCacheAge],
      [Host |-> <<"go.breu.io">>, CacheAge |-> CacheAgeOf(-1)] }

\* the maps from at most MaxPaths of the keys in ks to VanityPath values
PathMaps(ks) ==
    UNION { [K -> VanityPaths] : K \in { S \in SUBSET ks : Cardinality(S) <= MaxPaths } }

\* a file that yaml.Unmarshal rejects
MalformedConfig ==
    [Malformed |-> TRUE, Host |-> <<>>, CacheAge |-> NoCacheAge,
     Paths |-> [k \in {} |-> 0]]

Configs(ks) ==
    { [Malformed |-> FALSE, Host |-> s.Host, CacheAge |-> s.CacheAge, Paths |-> p] :
          s \in Settings, p \in PathMaps(ks) }
    \cup { MalformedConfig }

----------------------------------------------------------------------------
(* Errors. *)

NoError == [type |-> "nil", path |-> <<>>, repo |-> <<>>]

ErrInvalidConfig == [type |-> "ErrInvalidConfig", path |-> <<>>, repo |-> <<>>]

ErrCacheMaxAgeNegative ==
    [type |-> "ErrCacheMaxAgeNegative", path |-> <<>>, repo |-> <<>>]

NewInvalidVCSError(path, repo) ==
    [type |-> "InvalidVCSError", path |-> path, repo |-> repo]

----------------------------------------------------------------------------
(* NewVanityHandler. *)

\* the first switch of the loop body: the display string of an entry
DisplayOf(e) ==
    IF e.Display # <<>> THEN e.Display
    ELSE IF HasPrefix(e.Repo, GithubPrefix)
    THEN e.Repo \o <<" ">> \o e.Repo \o <<"/tree/master{/dir} ">>
         \o e.Repo \o <<"/blob/master{/dir}/{file}#L{line}">>
    ELSE IF HasPrefix(e.Repo, BitbucketPrefix)
    THEN e.Repo \o <<" ">> \o e.Repo \o <<"/src/default{/dir} ">>
         \o e.Repo \o <<"/src/default{/dir}/{file}#{file}-{line}">>
    ELSE e.Display

\* the second switch of the loop body returns an error for this entry
VCSRejected(e) ==
    IF e.VCS # ""
    THEN e.VCS \notin {"bzr", "git", "hg", "svn"}
    ELSE ~HasPrefix(e.Repo, GithubPrefix)

\* the second switch of the loop body: the VCS of an accepted entry
VCSOf(e) ==
    IF e.VCS # "" THEN e.VCS ELSE "git"

\* the PathConfig the loop body appends for the key path and its value e
PathConfigOf(path, e) ==
    [Path |-> TrimSuffix(path, Slash), Repo |-> e.Repo,
     Display |-> DisplayOf(e), VCS |-> VCSOf(e)]

\* the permutations of 1..n, for n up to MaxPaths
PermutationsOf ==
    [n \in 0..MaxPaths |->
        { p \in [1..n -> 1..n] : \A i, j \in 1..n : p[i] = p[j] => i = j }]

\* the elements of a finite set, in some order
RECURSIVE SetToSeq(_)
SetToSeq(S) ==
    IF S = {} THEN <<>>
    ELSE LET x == CHOOSE y \in S : TRUE
         IN  <<x>> \o SetToSeq(S \ {x})

\* the orders in which range may iterate over a map with these keys
IterationOrders(ks) ==
    LET base == SetToSeq(ks)
    IN  { [i \in DOMAIN base |-> base[p[i]]] : p \in PermutationsOf[Len(base)] }

\* for path, e := range parsed.Paths { ... }, iterating in the given order
\* from position k with handler.paths = acc
RECURSIVE RangePaths(_, _, _, _)
RangePaths(parsedPaths, order, k, acc) ==
    IF k > Len(order)
    THEN [err |-> NoError, paths |-> acc]
    ELSE LET path == order[k]
             e == parsedPaths[path]
         IN  IF VCSRejected(e)
             THEN [err |-> NewInvalidVCSError(path, e.Repo), paths |-> <<>>]
             ELSE RangePaths(parsedPaths, order, k + 1,
                             Append(acc, PathConfigOf(path, e)))

\* one pass of the insertion sort: for j := i; j > a && Less(j, j-1); j--
\* { Swap(j, j-1) }, which moves x down past every entry it is Less than
Insert(sorted, x) ==
    LET stay == Cardinality({ j \in DOMAIN sorted : ~Less(x, sorted[j]) })
    IN  SubSeq(sorted, 1, stay) \o <<x>> \o SubSeq(sorted, stay + 1, Len(sorted))

\* sort.Sort(handler.paths), which runs an insertion sort on a table of at
\* most 12 entries: entries k.. of pset are inserted into sorted.  Entries
\* with equal paths keep the order the map iteration gave them, which is
\* any order: sort.Sort promises no particular one
RECURSIVE Sort(_, _, _)
Sort(pset, k, sorted) ==
    IF k > Len(pset) THEN sorted
    ELSE Sort(pset, k + 1, Insert(sorted, pset[k]))

\* fmt.Sprintf("public, max-age=%d", cacheAge)
CacheControl(cacheAge) == <<"public, max-age=", cacheAge>>

\* cacheAge := int64(86400), the default
DefaultCacheAge == 86400

----------------------------------------------------------------------------
(* Requests and responses. *)

SeqsUpTo(A, n) == UNION { [1..k -> A] : k \in 0..n }

\* the characters of the request paths that are enumerated in full
ReqAlphabet == {"/", "a", "b"}

\* longer request paths, and request paths with other characters
ExtraRequests ==
    { <<"/", "d", "e", "f">>,
      <<"/", "a", "-">>,
      <<"/", "a", "-", "b">>,
      <<"/", "a", "-", "b", "/", "a">>,
      <<"/", "a", "-", "b", "b">>,
      <<"/", "a", "b", "c">>,
      <<"/", "a", "b", "c", "d">>,
      <<"/", "a", "b", "c", "/", "d">>,
      <<"/", "x", "y", "z">>,
      <<"/", "a", "/", "b", "b">>,
      <<"/", "a", "/", "b", "/", "c">>,
      <<"/", "a", "/", "b", "/", "c", "/", "d", "/", "e">> }

\* r.URL.Path: the empty path, every path of at most MaxReqLen characters
\* of ReqAlphabet that starts with a slash, and ExtraRequests
Requests ==
    { <<>> } \cup { Slash \o s : s \in SeqsUpTo(ReqAlphabet, MaxReqLen - 1) }
    \cup ExtraRequests

\* r.Host, the Host header of every request
RequestHost == <<"localhost:8080">>

\* DefaultHost(r)
DefaultHost == RequestHost

\* VanityHandler.Host
Host(hhost) == IF hhost = <<>> THEN DefaultHost ELSE hhost

\* a response: the Cache-Control header, and the page written: for the
\* index its Host and Handlers, for a vanity page the VanityTemplate
NoResponse ==
    [kind |-> "none", CacheControl |-> <<>>, Host |-> <<>>, Handlers |-> <<>>,
     Import |-> <<>>, SubPath |-> <<>>, Repo |-> <<>>, Display |-> <<>>,
     VCS |-> ""]

\* VanityHandler.index
index(hhost, hcachectrl, hpaths) ==
    [NoResponse EXCEPT
        !.kind = "index", !.CacheControl = hcachectrl, !.Host = Host(hhost),
        !.Handlers = [i \in DOMAIN hpaths |-> Host(hhost) \o hpaths[i].Path]]

\* http.NotFound
NotFound(hcachectrl) ==
    [NoResponse EXCEPT !.kind = "notfound", !.CacheControl = hcachectrl]

\* VanityHandler.vanity
vanity(hhost, hcachectrl, pc, subpath) ==
    [NoResponse EXCEPT
        !.kind = "vanity", !.CacheControl = hcachectrl,
        !.Import = Host(hhost) \o pc.Path, !.SubPath = subpath,
        !.Repo = pc.Repo, !.Display = pc.Display, !.VCS = pc.VCS]

\* a wrong dispatch: the root path always gets the index
DispatchRootIsIndex(pc, current) ==
    IF current = Slash THEN "index"
    ELSE IF pc = 0 THEN "notfound"
    ELSE "vanity"

\* the two tests of ServeHTTP on the result of find (pc = 0 is nil)
Dispatch(pc, current) ==
    IF pc = 0 /\ current = Slash THEN "index"
    ELSE IF pc = 0 THEN "notfound"
    ELSE "vanity"

\* the response ServeHTTP writes for the request path current, for which
\* find returned found
Response(hhost, hcachectrl, hpaths, current, found) ==
    LET kind == Dispatch(found.pc, current)
    IN  IF kind = "index" THEN index(hhost, hcachectrl, hpaths)
        ELSE IF kind = "notfound" THEN NotFound(hcachectrl)
        ELSE vanity(hhost, hcachectrl, hpaths[found.pc], found.subpath)

\* a request that has not been served yet
Idle ==
    [state |-> "idle", path |-> <<>>, pc |-> 0, subpath |-> <<>>,
     resp |-> NoResponse]

----------------------------------------------------------------------------
(* The state machine.                                                      *)
(*   config    the parsed configuration file                               *)
(*   phase     where main is: "start" before NewVanityHandler, "serving"   *)
(*             once the handler is registered, "failed" after log.Fatal    *)
(*   paths, host, cachectrl   the fields of the VanityHandler              *)
(*   err       the error NewVanityHandler returned                         *)
(*   reqs      per request of the run, "idle" until it is served, then     *)
(*             its path, what find returned and the response written       *)

Slots == 1..NumReq

InitWith(ks) ==
    /\ config \in Configs(ks)
    /\ phase = "start"
    /\ paths = <<>>
    /\ host = <<>>
    /\ cachectrl = <<>>
    /\ err = NoError
    /\ reqs = [r \in Slots |-> Idle]

Init == InitWith(Keys)

\* main fails: NewVanityHandler returned (nil, e)
Fail(e) ==
    /\ phase' = "failed"
    /\ err' = e
    /\ UNCHANGED <<config, paths, host, cachectrl, reqs>>

\* what the loop and the sort of NewVanityHandler may leave: an error, or
\* handler.paths sorted, over every iteration order of the map
RangeAndSort(parsedPaths) ==
    UNION { LET ranged == RangePaths(parsedPaths, order, 1, <<>>)
            IN  IF ranged.err # NoError
                THEN { ranged }
                ELSE { [err |-> NoError, paths |-> Sort(ranged.paths, 1, <<>>)] } :
            order \in IterationOrders(DOMAIN parsedPaths) }

\* main calls NewVanityHandler(vanity) and registers the handler
NewVanityHandler ==
    /\ phase = "start"
    /\ IF config.Malformed
       THEN Fail(ErrInvalidConfig)
       ELSE IF ~config.CacheAge.IsNil /\ config.CacheAge.Value < 0
       THEN Fail(ErrCacheMaxAgeNegative)
       ELSE \E built \in RangeAndSort(config.Paths) :
              LET cacheAge == IF config.CacheAge.IsNil THEN DefaultCacheAge
                              ELSE config.CacheAge.Value
              IN  IF built.err # NoError
                  THEN Fail(built.err)
                  ELSE /\ phase' = "serving"
                       /\ paths' = built.paths
                       /\ host' = config.Host
                       /\ cachectrl' = CacheControl(cacheAge)
                       /\ UNCHANGED <<config, err, reqs>>

\* a wrong handler: the entry found is moved to the front of the table
ServeHTTPMovesToFront(r, current) ==
    /\ phase = "serving"
    /\ reqs[r].state = "idle"
    /\ LET found == find(paths, current)
       IN  /\ reqs' = [reqs EXCEPT ![r] =
                  [state |-> "done", path |-> current, pc |-> found.pc,
                   subpath |-> found.subpath,
                   resp |-> Response(host, cachectrl, paths, current, found)]]
           /\ paths' = IF found.pc = 0 THEN paths
                       ELSE [paths EXCEPT ![1] = paths[found.pc],
                                          ![found.pc] = paths[1]]
    /\ UNCHANGED <<config, phase, host, cachectrl, err>>

\* VanityHandler.ServeHTTP for request r of the run, for the path current
ServeHTTP(r, current) ==
    /\ phase = "serving"
    /\ reqs[r].state = "idle"
    /\ LET found == find(paths, current)
       IN  reqs' = [reqs EXCEPT ![r] =
              [state |-> "done", path |-> current, pc |-> found.pc,
               subpath |-> found.subpath,
               resp |-> Response(host, cachectrl, paths, current, found)]]
    /\ UNCHANGED <<config, phase, paths, host, cachectrl, err>>

\* the server is stopped and main runs again on the same file
Restart ==
    /\ phase = "serving"
    /\ phase' = "start"
    /\ paths' = <<>>
    /\ host' = <<>>
    /\ cachectrl' = <<>>
    /\ UNCHANGED <<config, err, reqs>>

\* one client: requests are served one after another
Next ==
    \/ NewVanityHandler
    \/ \E current \in Requests : ServeHTTP(1, current)

Spec == Init /\ [][Next]_vars

\* the keys and request paths of the runs with several requests
ConcKeys ==
    { <<"/">>, <<"/", "a">>, <<"/", "a", "/">>, <<"/", "a", "/", "b">> }

ConcRequests ==
    { <<"/">>, <<"/", "a">>, <<"/", "a", "/", "b">>,
      <<"/", "a", "/", "b", "/", "a">>, <<"/", "a", "b">>, <<"/", "b">> }

InitConcurrent == InitWith(ConcKeys)

\* NumReq clients: the server runs ServeHTTP on a goroutine per request,
\* so the requests are served in any order
NextConcurrent ==
    \/ NewVanityHandler
    \/ \E r \in Slots, current \in ConcRequests : ServeHTTP(r, current)

SpecConcurrent == InitConcurrent /\ [][NextConcurrent]_vars

\* as NextConcurrent, with restarts of the server between requests
NextRestart ==
    \/ NewVanityHandler
    \/ \E r \in Slots, current \in ConcRequests : ServeHTTP(r, current)
    \/ Restart

SpecRestart == InitConcurrent /\ [][NextRestart]_vars

----------------------------------------------------------------------------
(* Properties. *)

Done(r) == reqs[r].state = "done"

\* p is a prefix of s and shorter than s
StrictPrefix(p, s) == HasPrefix(s, p) /\ Len(p) < Len(s)

LongestPrefixWins ==
    \A r \in Slots :
        Done(r) /\ reqs[r].pc # 0 =>
            /\ HasPrefix(reqs[r].path, paths[reqs[r].pc].Path)
            /\ \A k \in DOMAIN paths :
                  HasPrefix(reqs[r].path, paths[k].Path) =>
                      Len(paths[k].Path) <= Len(paths[reqs[r].pc].Path)

\* a match found by the scan, where a shorter non-empty prefix of the
\* request path is configured too
LongestPrefixWinsWitness ==
    \E r \in Slots :
        /\ Done(r)
        /\ reqs[r].pc # 0
        /\ StrictPrefix(paths[reqs[r].pc].Path, reqs[r].path)
        /\ ~HasPrefix(reqs[r].path, paths[reqs[r].pc].Path \o Slash)
        /\ \E k \in DOMAIN paths :
              /\ Len(paths[k].Path) > 0
              /\ StrictPrefix(paths[k].Path, paths[reqs[r].pc].Path)

\* C3 (subpath extraction): an exact match has an empty subpath, and for
\* every other match the request path is the path of the entry, a slash
\* and the subpath.
SubpathExtraction ==
    \A r \in Slots :
        Done(r) /\ reqs[r].pc # 0 =>
            IF paths[reqs[r].pc].Path = reqs[r].path
            THEN reqs[r].subpath = <<>>
            ELSE reqs[r].path =
                     paths[reqs[r].pc].Path \o Slash \o reqs[r].subpath

\* C4 (no spurious prefix match): with the keys "/", "/abc" and "/xyz"
\* configured, the request for "/def" has no match and is not found.
NoSpuriousPrefixMatch ==
    \A r \in Slots :
        ( /\ Done(r)
          /\ DOMAIN config.Paths =
                 { <<"/">>, <<"/", "a", "b", "c">>, <<"/", "x", "y", "z">> }
          /\ reqs[r].path = <<"/", "d", "e", "f">> )
        => reqs[r].pc = 0 /\ reqs[r].resp.kind = "notfound"

\* "/def" has been served from the table of "/", "/abc" and "/xyz"
NoSpuriousPrefixMatchWitness ==
    \E r \in Slots :
        /\ Done(r)
        /\ DOMAIN config.Paths =
               { <<"/">>, <<"/", "a", "b", "c">>, <<"/", "x", "y", "z">> }
        /\ Len(paths) = 3
        /\ reqs[r].path = <<"/", "d", "e", "f">>
        /\ reqs[r].resp.kind = "notfound"

\* the position of the first entry of pset whose path is >= path, counted
\* from 1; Len(pset) + 1 when there is none
FirstAtLeast(pset, path) ==
    IF \E k \in DOMAIN pset : ~StrLess(pset[k].Path, path)
    THEN CHOOSE k \in DOMAIN pset :
             /\ ~StrLess(pset[k].Path, path)
             /\ \A j \in 1..(k - 1) : StrLess(pset[j].Path, path)
    ELSE Len(pset) + 1

\* C5 (immediate-child fast path): when no entry has the request path, i is
\* the first entry whose path is >= the request path, an entry precedes it
\* and the request path begins with that entry's path and a slash, find
\* returns the preceding entry and what follows the slash.
ImmediateChild ==
    \A r \in Slots :
        Done(r) =>
            LET i == FirstAtLeast(paths, reqs[r].path)
            IN  ( /\ \A k \in DOMAIN paths : paths[k].Path # reqs[r].path
                  /\ i > 1
                  /\ HasPrefix(reqs[r].path, paths[i - 1].Path \o Slash) )
                => /\ reqs[r].pc = i - 1
                   /\ paths[i - 1].Path \o Slash \o reqs[r].subpath = reqs[r].path
                   /\ reqs[r].resp.kind = "vanity"
                   /\ reqs[r].resp.SubPath = reqs[r].subpath

\* "/a/b/c" has been served from a table with "/a" and "/a/b", and
\* answered with "/a/b" and the subpath "c"
ImmediateChildWitness ==
    \E r \in Slots :
        /\ Done(r)
        /\ reqs[r].path = <<"/", "a", "/", "b", "/", "c">>
        /\ \E k \in DOMAIN paths : paths[k].Path = <<"/", "a">>
        /\ reqs[r].pc # 0
        /\ paths[reqs[r].pc].Path = <<"/", "a", "/", "b">>
        /\ reqs[r].subpath = <<"c">>

\* C6 (ordering invariant): the table of a constructed handler is strictly
\* ascending by path, so no two entries carry the same path.
OrderingInvariant ==
    phase = "serving" =>
        \A i, j \in DOMAIN paths :
            i < j => StrLess(paths[i].Path, paths[j].Path)

\* C7 (determinism under reconstruction): two requests for the same path,
\* served by any constructions of the handler from the same configuration,
\* get the same entry and the same subpath.
DeterministicReconstruction ==
    \A r1, r2 \in Slots :
        Done(r1) /\ Done(r2) /\ reqs[r1].path = reqs[r2].path =>
            /\ reqs[r1].resp = reqs[r2].resp
            /\ reqs[r1].subpath = reqs[r2].subpath

\* C8 (request dispatch): the index, listing every path of the table in
\* ascending order, answers exactly the unmatched "/"; not-found answers
\* exactly the other unmatched paths; a match is answered with the data of
\* the matched entry.  Without the key "/" a request for "/" gets the
\* index, and with it the request gets that route.
RequestDispatch ==
    \A r \in Slots :
        Done(r) =>
            LET resp == reqs[r].resp
                pc == reqs[r].pc
            IN  /\ resp.kind = "index" <=> (reqs[r].path = Slash /\ pc = 0)
                /\ resp.kind = "notfound" <=> (reqs[r].path # Slash /\ pc = 0)
                /\ resp.kind = "vanity" <=> pc # 0
                /\ resp.kind = "index" =>
                      /\ Len(resp.Handlers) = Len(paths)
                      /\ \A i \in DOMAIN paths :
                            resp.Handlers[i] = Host(host) \o paths[i].Path
                      /\ \A i, j \in DOMAIN paths :
                            i < j => ~StrLess(paths[j].Path, paths[i].Path)
                /\ pc # 0 =>
                      /\ resp.Import = Host(host) \o paths[pc].Path
                      /\ resp.SubPath = reqs[r].subpath
                      /\ resp.Repo = paths[pc].Repo
                      /\ resp.Display = paths[pc].Display
                      /\ resp.VCS = paths[pc].VCS
                /\ reqs[r].path = Slash =>
                      IF Slash \in DOMAIN config.Paths
                      THEN /\ resp.kind = "vanity"
                           /\ resp.Import = Host(host)
                           /\ resp.Repo = config.Paths[Slash].Repo
                      ELSE resp.kind = "index"

\* "/" has been answered with the index of a table of several entries
RequestDispatchWitness ==
    \E r \in Slots :
        /\ Done(r)
        /\ reqs[r].path = Slash
        /\ reqs[r].resp.kind = "index"
        /\ Len(reqs[r].resp.Handlers) >= 2

\* C9 (VCS default): when nothing else is wrong with the configuration
\* (it parses, cache_max_age is not negative, every vcs given is a known
\* one), construction succeeds, and every key without a vcs has an entry
\* whose VCS is git.
VCSDefaultsToGit ==
    ( /\ phase # "start"
      /\ ~config.Malformed
      /\ config.CacheAge.IsNil \/ config.CacheAge.Value >= 0
      /\ \A key \in DOMAIN config.Paths :
            config.Paths[key].VCS \in {"", "bzr", "git", "hg", "svn"} )
    => /\ phase = "serving"
       /\ \A key \in DOMAIN config.Paths :
             config.Paths[key].VCS = "" =>
                 \E k \in DOMAIN paths :
                     /\ paths[k].Path = TrimSuffix(key, Slash)
                     /\ paths[k].Repo = config.Paths[key].Repo
                     /\ paths[k].VCS = "git"

\* a step that serves a request leaves the handler as it was
ServingIsReadOnly ==
    (reqs' # reqs) => UNCHANGED <<config, phase, paths, host, cachectrl>>

\* two requests for the same path got the same entry and subpath
SameAnswers ==
    \A r1, r2 \in Slots :
        Done(r1) /\ Done(r2) /\ reqs[r1].path = reqs[r2].path =>
            /\ reqs[r1].pc = reqs[r2].pc
            /\ reqs[r1].subpath = reqs[r2].subpath
            /\ reqs[r1].resp = reqs[r2].resp

\* C10 (read-only resolution): once the handler is constructed, no request,
\* in whatever order concurrent requests are served, changes the table, and
\* two requests for the same path get the same entry and the same subpath.
ReadOnlyResolution ==
    [][ServingIsReadOnly]_vars /\ []SameAnswers

\* two requests for the same path have been served and matched an entry
\* that is not the first of the table
ReadOnlyResolutionWitness ==
    \E r1, r2 \in Slots :
        /\ r1 # r2
        /\ Done(r1) /\ Done(r2)
        /\ reqs[r1].path = reqs[r2].path
        /\ reqs[r1].pc > 1
        /\ reqs[r2].pc > 1

\* pset without its k-th entry: the table NewVanityHandler builds when the
\* key of that entry is not configured (what is left of a sorted table is
\* sorted, in an order of equal paths that the map iteration can give)
WithoutEntry(pset, k) ==
    SubSeq(pset, 1, k - 1) \o SubSeq(pset, k + 1, Len(pset))

\* C11 (independence from unrelated routes): for a request served from the
\* table, taking out any entry whose path is not a prefix of the request
\* path leaves the answer of find as it was: a match is found or not as
\* before, the entry returned is the same and so is the subpath.
IndependentOfUnrelatedRoutes ==
    \A r \in Slots :
        Done(r) =>
            \A k \in DOMAIN paths :
                ~HasPrefix(reqs[r].path, paths[k].Path) =>
                    LET without == WithoutEntry(paths, k)
                        other == find(without, reqs[r].path)
                    IN  /\ (other.pc = 0) <=> (reqs[r].pc = 0)
                        /\ other.pc # 0 /\ reqs[r].pc # 0 =>
                              without[other.pc] = paths[reqs[r].pc]
                        /\ other.subpath = reqs[r].subpath

====
